---- MODULE Spec2Model ----
(***************************************************************************)
(* Model of the anomaly detector of ma-civic-tracker                       *)
(* (lib/fraud-detection.ts, kept in src/README.md lines 263-1004) and of   *)
(* its caller, the alerts page (src/src/app/alerts/page.tsx).              *)
(*                                                                         *)
(* JavaScript strings are sequences of one-character strings, so that      *)
(* template keys, split('|'), String(amount)[0] and the vendor-name        *)
(* regular expressions are computed character by character.  Amounts are   *)
(* non-negative whole dollars; every percentage or ratio test of the code  *)
(* is evaluated exactly, as a comparison of integers.                      *)
(***************************************************************************)
EXTENDS Integers, Sequences, FiniteSets, TLC

VARIABLES
    transactions,     \* the array handed to analyzeTransactions
    outcome,          \* "loading" | "fetched" | "returned" | "threw"
    anomalies,        \* page state: result.anomalies of the last returned call
    stats,            \* page state: result.stats of the last returned call
    objectPrototype,  \* properties added to Object.prototype since start-up
    timezone          \* the runtime's local zone: "west" (UTC-5) or "utc"

vars == <<transactions, outcome, anomalies, stats, objectPrototype, timezone>>

----------------------------------------------------------------------------
(* Characters and strings                                                  *)

Upper == <<"A", "B", "C", "D", "E", "F", "G", "H", "I", "J", "K", "L", "M", "N", "O", "P", "Q", "R", "S", "T", "U", "V", "W", "X", "Y", "Z">>
Lower == <<"a", "b", "c", "d", "e", "f", "g", "h", "i", "j", "k", "l", "m", "n", "o", "p", "q", "r", "s", "t", "u", "v", "w", "x", "y", "z">>
Digits == <<"0", "1", "2", "3", "4", "5", "6", "7", "8", "9">>

IndexIn(seq, c) ==
    IF \E i \in DOMAIN seq : seq[i] = c
    THEN CHOOSE i \in DOMAIN seq : seq[i] = c
    ELSE 0

IsUpper(c) == IndexIn(Upper, c) > 0
IsLower(c) == IndexIn(Lower, c) > 0
IsLetter(c) == IsUpper(c) \/ IsLower(c)
IsDigit(c) == IndexIn(Digits, c) > 0
\* \w of a regular expression
IsWordChar(c) == IsLetter(c) \/ IsDigit(c) \/ c = "_"
\* \s of a regular expression (the blanks the vendor names of the model use)
IsSpace(c) == c = " "
\* case folding of the /i flag
ToLower(c) == IF IsUpper(c) THEN Lower[IndexIn(Upper, c)] ELSE c

\* the value of a decimal digit character (parseInt of one character)
DigitValue(c) == IndexIn(Digits, c) - 1

\* String(n) / `${n}` of a non-negative integer below 1e21
RECURSIVE NumberToString(_)
NumberToString(n) ==
    IF n < 10
    THEN <<Digits[n + 1]>>
    ELSE Append(NumberToString(n \div 10), Digits[(n % 10) + 1])

\* s.indexOf(c), 1-based; 0 when c does not occur
FirstIndexOf(s, c) ==
    IF \E i \in DOMAIN s : s[i] = c
    THEN CHOOSE i \in DOMAIN s : s[i] = c /\ \A j \in 1..(i - 1) : s[j] # c
    ELSE 0

\* s.split(c)[0]: the text before the first c, the whole string without one
SplitFirst(s, c) ==
    LET i == FirstIndexOf(s, c)
    IN  IF i = 0 THEN s ELSE SubSeq(s, 1, i - 1)

\* s.split(c)[1] of a string that holds c: the text between the first c and
\* the second
SplitSecond(s, c) ==
    LET i == FirstIndexOf(s, c)
        rest == SubSeq(s, i + 1, Len(s))
    IN  SplitFirst(rest, c)

\* the text w occurs in s at position i, letters compared case-insensitively
OccursAt(s, w, i) ==
    /\ i >= 1
    /\ i + Len(w) - 1 <= Len(s)
    /\ \A k \in 1..Len(w) : ToLower(s[i + k - 1]) = w[k]

\* \b between positions i and i+1 of s (i = 0: the start, i = Len(s): the end)
WordBoundary(s, i) ==
    LET before == i >= 1 /\ i <= Len(s) /\ IsWordChar(s[i])
        after == i + 1 >= 1 /\ i + 1 <= Len(s) /\ IsWordChar(s[i + 1])
    IN  before # after

----------------------------------------------------------------------------
(* JavaScript values and the prototype chain of a dictionary object `{}`   *)

Undefined == [t |-> "undefined", n |-> 0]
NaN == [t |-> "NaN", n |-> 0]
Num(k) == [t |-> "number", n |-> k]
FunctionValue == [t |-> "function", n |-> 0]
ObjectValue == [t |-> "object", n |-> 0]
StringValue == [t |-> "string", n |-> 0]

\* ToBoolean: what `!x` and `x || 0` test
Truthy(v) == v.t \in {"function", "object", "string"} \/ (v.t = "number" /\ v.n # 0)

\* v + amount, amount a number
Plus(v, amount) ==
    CASE v.t = "number" -> Num(v.n + amount)
      [] v.t \in {"undefined", "NaN"} -> NaN
      [] OTHER -> StringValue

\* variant: target.total = (target.total || 0) + t.amount
AddAssignDefaulted(old, amount) == Plus(IF Truthy(old) THEN old ELSE Num(0), amount)

\* target.total += t.amount (line 797): the old value is read, the sum stored
AddAssign(old, amount) == Plus(old, amount)

\* target.count++ (line 798)
Increment(old) == Plus(old, 1)

NameProto == <<"_", "_", "p", "r", "o", "t", "o", "_", "_">>
NameConstructor == <<"c", "o", "n", "s", "t", "r", "u", "c", "t", "o", "r">>
NameTotal == <<"t", "o", "t", "a", "l">>
NameCount == <<"c", "o", "u", "n", "t">>

\* the methods every object inherits from Object.prototype
BuiltinFunctionNames ==
    { NameConstructor,
      <<"h", "a", "s", "O", "w", "n", "P", "r", "o", "p", "e", "r", "t", "y">>,
      <<"i", "s", "P", "r", "o", "t", "o", "t", "y", "p", "e", "O", "f">>,
      <<"p", "r", "o", "p", "e", "r", "t", "y", "I", "s", "E", "n", "u", "m", "e", "r", "a", "b", "l", "e">>,
      <<"t", "o", "L", "o", "c", "a", "l", "e", "S", "t", "r", "i", "n", "g">>,
      <<"t", "o", "S", "t", "r", "i", "n", "g">>,
      <<"v", "a", "l", "u", "e", "O", "f">>,
      <<"_", "_", "d", "e", "f", "i", "n", "e", "G", "e", "t", "t", "e", "r", "_", "_">>,
      <<"_", "_", "d", "e", "f", "i", "n", "e", "S", "e", "t", "t", "e", "r", "_", "_">> ,
      <<"_", "_", "l", "o", "o", "k", "u", "p", "G", "e", "t", "t", "e", "r", "_", "_">>,
      <<"_", "_", "l", "o", "o", "k", "u", "p", "S", "e", "t", "t", "e", "r", "_", "_">> }

\* Object.prototype before any call: nothing added
PristinePrototype == {}

\* obj[name] for a name that is not an own property of obj: the lookup goes
\* to Object.prototype; proto holds the properties added to it at run time
ProtoGet(proto, name) ==
    IF name = NameProto THEN ObjectValue
    ELSE IF name \in BuiltinFunctionNames THEN FunctionValue
    ELSE IF \E p \in proto : p.name = name
         THEN (CHOOSE p \in proto : p.name = name).value
         ELSE Undefined

\* Object.prototype[name] = value
ProtoSet(proto, name, value) ==
    {p \in proto : p.name # name} \union {[name |-> name, value |-> value]}

\* 1, 2, ..., the positions of the array
Positions(keys) == [i \in DOMAIN keys |-> i]

\* Own keys are kept in insertion order: a key enters the dictionary at its
\* first occurrence in the loop.
FirstOccurrences(keys) ==
    LET first(i) == \A j \in 1..(i - 1) : keys[j] # keys[i]
    IN  SelectSeq(Positions(keys), first)

\* obj[key] after the loop: the elements pushed under key, in loop order
Members(keys, txs, key) ==
    LET under(i) == keys[i] = key
        at == SelectSeq(Positions(keys), under)
    IN  [m \in DOMAIN at |-> txs[at[m]]]

\* the positions at which obj[key] is an inherited truthy value, and so
\* `if (!obj[key])` creates no own entry
Inherited(keys, proto) ==
    LET found(i) == Truthy(ProtoGet(proto, keys[i]))
    IN  SelectSeq(Positions(keys), found)

\* the dictionary a grouping loop builds, as its entries in insertion order
Entries(keys, txs) ==
    LET firsts == FirstOccurrences(keys)
    IN  [k \in DOMAIN firsts |->
            [key |-> keys[firsts[k]], txns |-> Members(keys, txs, keys[firsts[k]])]]

\* for (const t of txs) { if (!obj[key]) { obj[key] = []; }  obj[key].push(t); }
\* An inherited truthy value is not replaced and has no push: TypeError at
\* the first such element.
GroupBy(keys, txs, proto) ==
    IF Inherited(keys, proto) # <<>>
    THEN [threw |-> TRUE, entries |-> <<>>]
    ELSE [threw |-> FALSE, entries |-> Entries(keys, txs)]

VendorKeys(txs) == [i \in DOMAIN txs |-> txs[i].vendor]

\* for (const t of txs) {
\*   if (!obj[v]) obj[v] = {total: 0, count: 0, txns: []};
\*   obj[v].total += t.amount; obj[v].count++; obj[v].txns.push(t); }
\* At the first element whose obj[v] is inherited and truthy the two writes
\* land on the inherited value (Object.prototype itself for v = "__proto__",
\* a built-in function otherwise, whose total and count nothing else reads)
\* and txns is undefined, so push throws.
VendorTotals(txs, proto) ==
    LET keys == VendorKeys(txs)
        inherited == Inherited(keys, proto)
        t == txs[inherited[1]]
        total == AddAssign(ProtoGet(proto, NameTotal), t.amount)
        cnt == Increment(ProtoGet(proto, NameCount))
    IN  IF inherited = <<>>
        THEN [threw |-> FALSE, entries |-> Entries(keys, txs), proto |-> proto]
        ELSE [threw |-> TRUE, entries |-> <<>>,
              proto |-> IF ProtoGet(proto, t.vendor).t = "object"
                        THEN ProtoSet(ProtoSet(proto, NameTotal, total), NameCount, cnt)
                        ELSE proto]

RECURSIVE SumAmounts(_, _, _)
SumAmounts(txs, from, to) ==
    IF from > to THEN 0
    ELSE IF from = to THEN txs[from].amount
    ELSE LET mid == (from + to) \div 2
         IN  SumAmounts(txs, from, mid) + SumAmounts(txs, mid + 1, to)

\* txns.reduce((sum, t) => sum + t.amount, 0)
TotalAmount(txs) == SumAmounts(txs, 1, Len(txs))

\* variant: a / b * 100 >= pct
PercentAtLeast(a, b, pct) ==
    LET d == a - pct * (b \div 100)
    IN  IF d >= pct THEN TRUE
        ELSE IF d < 0 THEN FALSE
        ELSE d * 100 >= pct * (b % 100)

\* a / b * 100 > pct for integers a >= 0, b > 0, evaluated exactly and without
\* leaving 32 bits: a*100 > pct*b with b = 100*q + r
PercentGreater(a, b, pct) ==
    LET d == a - pct * (b \div 100)
    IN  IF d >= pct THEN TRUE
        ELSE IF d < 0 THEN FALSE
        ELSE d * 100 > pct * (b % 100)

----------------------------------------------------------------------------
(* Anomalies                                                               *)

IdPrefix == <<"a", "n", "o", "m", "a", "l", "y", "-">>

\* `anomaly-${id}`
AnomalyId(id) == IdPrefix \o NumberToString(id)

\* id: `anomaly-${id++}` in each push: the k-th finding of a method gets
\* startId + k - 1
WithIds(findings, startId) ==
    [k \in DOMAIN findings |-> [id |-> AnomalyId(startId + k - 1)] @@ findings[k]]

\* variant: the counter is read but never advanced
NextIdStuck(findings, startId) == startId

\* the id counter after a method has pushed its findings
NextId(findings, startId) == startId + Len(findings)

\* what a detection method hands back: {anomalies, nextId}, or an exception;
\* proto is Object.prototype as the method leaves it
Returned(findings, startId, proto) ==
    [threw |-> FALSE, anomalies |-> WithIds(findings, startId),
     nextId |-> NextId(findings, startId), proto |-> proto]

Thrown(startId, proto) ==
    [threw |-> TRUE, anomalies |-> <<>>, nextId |-> startId, proto |-> proto]

\* .length of a filtered collection
Count(S) == Cardinality(S)

----------------------------------------------------------------------------
(* 1. Benford's law                                                        *)

\* BENFORD_EXPECTED, in thousandths
BENFORD_EXPECTED == <<301, 176, 125, 97, 79, 67, 58, 51, 46>>

BenfordMinAmount == 100
BenfordMinSample == 100

\* variant: only the amounts above 100 are kept
BenfordAmountsAbove(txs) ==
    LET keep(t) == t.amount > BenfordMinAmount
        kept == SelectSeq(txs, keep)
    IN  [i \in DOMAIN kept |-> kept[i].amount]

\* transactions.filter((t) => t.amount >= 100).map((t) => t.amount)
BenfordAmounts(txs) ==
    LET keep(t) == t.amount >= BenfordMinAmount
        kept == SelectSeq(txs, keep)
    IN  [i \in DOMAIN kept |-> kept[i].amount]

\* variant: the sample test is off by one
BenfordSampleTooSmallOffByOne(amounts) == Len(amounts) < BenfordMinSample - 1

\* if (amounts.length < 100) return: not enough samples
BenfordSampleTooSmall(amounts) == Len(amounts) < BenfordMinSample

\* parseInt(String(amount)[0])
FirstDigit(amount) == DigitValue(NumberToString(amount)[1])

\* firstDigits[digit] after the counting loop
FirstDigitCount(amounts, digit) ==
    Count({i \in DOMAIN amounts : FirstDigit(amounts[i]) = digit})

\* The pairs <<expected, bound>>, in thousandths, for which the double
\* Math.abs(count / total - expected) is greater than the double bound
\* although count / total is exactly expected + bound: 0.401 - 0.301 and
\* 0.276 - 0.176 are 0.10000000000000003, 0.226 - 0.176 is
\* 0.05000000000000002, 0.101 - 0.051 is 0.05000000000000001.  The quotient
\* is correctly rounded, so the outcome depends on its value alone; for the
\* other digits, and on the side below expected, the double difference is
\* not greater than the bound.
BenfordRoundedAbove == {<<301, 100>>, <<176, 100>>, <<176, 50>>, <<51, 50>>}

\* const actual = firstDigits[digit] / total;
\* Math.abs(actual - expected) > bound/1000, with expected in thousandths.
\* Off the exact boundary the distance to it is at least 1/(1000 * total),
\* far above the rounding error, and the double test agrees with the exact
\* one.
BenfordDeviates(cnt, total, expected, bound) ==
    LET diff == 1000 * cnt - expected * total
        abs == IF diff < 0 THEN 0 - diff ELSE diff
    IN  \/ abs > bound * total
        \/ diff = bound * total /\ <<expected, bound>> \in BenfordRoundedAbove

analyzeBenfordsLaw(txs, startId, proto) ==
    LET amounts == BenfordAmounts(txs)
        total == Len(amounts)
        deviates(bound) ==
            {d \in 1..9 : BenfordDeviates(FirstDigitCount(amounts, d), total,
                                          BENFORD_EXPECTED[d], bound)}
        severity == IF deviates(100) # {} THEN "high" ELSE "medium"
    IN  IF BenfordSampleTooSmall(amounts)
        THEN Returned(<<>>, startId, proto)
        ELSE IF deviates(50) # {}
             THEN Returned(<<[type |-> "benfords_law", severity |-> severity]>>,
                           startId, proto)
             ELSE Returned(<<>>, startId, proto)

----------------------------------------------------------------------------
(* 2. Duplicate payments                                                   *)

\* `${t.vendor}|${t.amount}`
VendorAmountKey(t) == t.vendor \o <<"|">> \o NumberToString(t.amount)

DuplicateFinding(entry) ==
    LET txns == entry.txns
        totalAmount == TotalAmount(txns)
    IN  [type |-> "duplicate_payments",
         severity |-> IF Len(txns) >= 5 \/ totalAmount > 100000 THEN "high" ELSE "medium",
         vendor |-> SplitFirst(entry.key, "|"),
         amount |-> totalAmount,
         count |-> Len(txns)]

\* variant: a payment of exactly 1000 qualifies
DuplicateQualifiesAtThousand(txns) == Len(txns) >= 3 /\ txns[1].amount >= 1000

\* txns.length >= 3 && txns[0].amount > 1000
DuplicateQualifies(txns) == Len(txns) >= 3 /\ txns[1].amount > 1000

detectDuplicatePayments(txs, startId, proto) ==
    LET groups == GroupBy([i \in DOMAIN txs |-> VendorAmountKey(txs[i])], txs, proto)
        flagged(entry) == DuplicateQualifies(entry.txns)
        hits == SelectSeq(groups.entries, flagged)
    IN  IF groups.threw
        THEN Thrown(startId, proto)
        ELSE Returned([k \in DOMAIN hits |-> DuplicateFinding(hits[k])], startId, proto)

----------------------------------------------------------------------------
(* 3. Threshold avoidance                                                  *)

APPROVAL_THRESHOLDS == <<1000, 2500, 5000, 10000, 25000, 50000, 100000>>

\* threshold * 0.95: a whole number for each of the seven thresholds
LowerBound(threshold) == (threshold * 95) \div 100
\* variant: the threshold itself is inside the window
UpperBoundInclusive(threshold) == threshold
\* threshold - 1
UpperBound(threshold) == threshold - 1

\* transactions.filter((t) => t.amount >= lowerBound && t.amount <= upperBound)
NearThreshold(txs, threshold) ==
    LET near(t) == t.amount >= LowerBound(threshold) /\ t.amount <= UpperBound(threshold)
    IN  SelectSeq(txs, near)

ThresholdFindingGraded(entry, threshold) ==
    [type |-> "threshold_avoidance",
     severity |-> IF Len(entry.txns) >= 5 THEN "critical" ELSE "medium",
     threshold |-> threshold,
     vendor |-> entry.key,
     amount |-> TotalAmount(entry.txns),
     count |-> Len(entry.txns)]

ThresholdFinding(entry, threshold) ==
    [type |-> "threshold_avoidance",
     severity |-> IF Len(entry.txns) >= 5 THEN "critical" ELSE "high",
     threshold |-> threshold,
     vendor |-> entry.key,
     amount |-> TotalAmount(entry.txns),
     count |-> Len(entry.txns)]

\* one pass of the loop over APPROVAL_THRESHOLDS: the findings of one threshold
ThresholdPass(txs, threshold, proto) ==
    LET nearThreshold == NearThreshold(txs, threshold)
        byVendor == GroupBy(VendorKeys(nearThreshold), nearThreshold, proto)
        flagged(entry) == Len(entry.txns) >= 3
        hits == SelectSeq(byVendor.entries, flagged)
    IN  [threw |-> byVendor.threw,
         findings |-> [k \in DOMAIN hits |-> ThresholdFinding(hits[k], threshold)]]

\* the findings of patterns/thresholds 1..n, in loop order; threw if a pass threw
RECURSIVE Passes(_, _)
Passes(pass, n) ==
    IF n = 0
    THEN [threw |-> FALSE, findings |-> <<>>]
    ELSE LET before == Passes(pass, n - 1)
             this == pass[n]
         IN  IF before.threw THEN before
             ELSE [threw |-> this.threw, findings |-> before.findings \o this.findings]

detectThresholdAvoidance(txs, startId, proto) ==
    LET pass == [n \in DOMAIN APPROVAL_THRESHOLDS |->
                    ThresholdPass(txs, APPROVAL_THRESHOLDS[n], proto)]
        all == Passes(pass, Len(APPROVAL_THRESHOLDS))
    IN  IF all.threw THEN Thrown(startId, proto)
        ELSE Returned(all.findings, startId, proto)

----------------------------------------------------------------------------
(* 4. Round numbers                                                        *)

roundPatternsLargeOnly ==
    << [divisor |-> 10000, minAmount |-> 10000, name |-> "$10K increments"],
       [divisor |-> 5000, minAmount |-> 5000, name |-> "$5K increments"],
       [divisor |-> 1000, minAmount |-> 50000, name |-> "$1K increments"] >>

roundPatterns ==
    << [divisor |-> 10000, minAmount |-> 10000, name |-> "$10K increments"],
       [divisor |-> 5000, minAmount |-> 5000, name |-> "$5K increments"],
       [divisor |-> 1000, minAmount |-> 5000, name |-> "$1K increments"] >>

\* transactions.filter((t) => t.amount >= minAmount && t.amount % divisor === 0)
RoundPayments(txs, pattern) ==
    LET round(t) == t.amount >= pattern.minAmount /\ t.amount % pattern.divisor = 0
    IN  SelectSeq(txs, round)

\* transactions.filter((t) => t.vendor === vendor).length
TotalForVendor(txs, vendor) == Count({i \in DOMAIN txs : txs[i].vendor = vendor})

RoundFinding(entry, pattern) ==
    [type |-> "round_numbers",
     severity |-> IF Len(entry.txns) >= 10 THEN "high" ELSE "medium",
     pattern |-> pattern.name,
     vendor |-> entry.key,
     amount |-> TotalAmount(entry.txns),
     count |-> Len(entry.txns)]

RoundPass(txs, pattern, proto) ==
    LET roundPayments == RoundPayments(txs, pattern)
        byVendor == GroupBy(VendorKeys(roundPayments), roundPayments, proto)
        flagged(entry) ==
            /\ Len(entry.txns) >= 4
            /\ PercentGreater(Len(entry.txns), TotalForVendor(txs, entry.key), 50)
        hits == SelectSeq(byVendor.entries, flagged)
    IN  [threw |-> byVendor.threw,
         findings |-> [k \in DOMAIN hits |-> RoundFinding(hits[k], pattern)]]

detectRoundNumbers(txs, startId, proto) ==
    LET pass == [n \in DOMAIN roundPatterns |-> RoundPass(txs, roundPatterns[n], proto)]
        all == Passes(pass, Len(roundPatterns))
    IN  IF all.threw THEN Thrown(startId, proto)
        ELSE Returned(all.findings, startId, proto)

----------------------------------------------------------------------------
(* Dates: new Date(t.date).getDay()                                        *)

\* the number written with the digits s[from..to]
RECURSIVE DigitsValue(_, _, _)
DigitsValue(s, from, to) ==
    IF to < from THEN 0 ELSE DigitsValue(s, from, to - 1) * 10 + DigitValue(s[to])

AllDigits(s, from, to) == \A i \in from..to : IsDigit(s[i])

\* YYYY-MM-DD
IsDateOnly(s) ==
    /\ Len(s) = 10
    /\ AllDigits(s, 1, 4) /\ s[5] = "-" /\ AllDigits(s, 6, 7) /\ s[8] = "-"
    /\ AllDigits(s, 9, 10)

\* YYYY-MM-DDTHH:MM:SS, no zone designator
IsLocalDateTime(s) ==
    /\ Len(s) = 19
    /\ IsDateOnly(SubSeq(s, 1, 10))
    /\ s[11] = "T"
    /\ AllDigits(s, 12, 13) /\ s[14] = ":" /\ AllDigits(s, 15, 16) /\ s[17] = ":"
    /\ AllDigits(s, 18, 19)

IsLeapYear(y) == (y % 4 = 0 /\ y % 100 # 0) \/ y % 400 = 0

DaysInMonth(y, m) ==
    IF m = 2 THEN (IF IsLeapYear(y) THEN 29 ELSE 28)
    ELSE IF m \in {4, 6, 9, 11} THEN 30 ELSE 31

\* the strings Date parses in the model: the two ISO forms with a real
\* calendar date and time; every other string of the model is an Invalid Date
IsParseable(s) ==
    /\ IsDateOnly(s) \/ IsLocalDateTime(s)
    /\ LET y == DigitsValue(s, 1, 4)
           m == DigitsValue(s, 6, 7)
           d == DigitsValue(s, 9, 10)
       IN  /\ m \in 1..12
           /\ d \in 1..DaysInMonth(y, m)
           /\ IsLocalDateTime(s) =>
                /\ DigitsValue(s, 12, 13) \in 0..23
                /\ DigitsValue(s, 15, 16) \in 0..59
                /\ DigitsValue(s, 18, 19) \in 0..59

\* days from 1970-01-01 to the civil date y-m-d
DaysFromCivil(y, m, d) ==
    LET yy == IF m <= 2 THEN y - 1 ELSE y
        era == yy \div 400
        yoe == yy - era * 400
        mp == IF m > 2 THEN m - 3 ELSE m + 9
        doy == (153 * mp + 2) \div 5 + d - 1
        doe == yoe * 365 + yoe \div 4 - yoe \div 100 + doy
    IN  era * 146097 + doe - 719468

\* getDay() of a parseable date: 0 = Sunday .. 6 = Saturday, in local time.
\* A date-only string is midnight UTC, which west of Greenwich is the evening
\* of the day before; a date-time string without zone is local time.
LocalDay(s, zone) ==
    LET days == DaysFromCivil(DigitsValue(s, 1, 4), DigitsValue(s, 6, 7), DigitsValue(s, 9, 10))
        shift == IF IsDateOnly(s) /\ zone = "west" THEN 1 ELSE 0
    IN  (days - shift + 4) % 7

\* the filter of detectWeekendPayments: an Invalid Date has getDay() NaN
IsWeekendPayment(t, zone) ==
    /\ t.date # <<>>
    /\ IsParseable(t.date)
    /\ LocalDay(t.date, zone) \in {0, 6}

----------------------------------------------------------------------------
(* 5. Weekend payments                                                     *)

WeekendFinding(entry, txs) ==
    LET total == TotalForVendor(txs, entry.key)
    IN  [type |-> "weekend_payments",
         severity |-> IF PercentGreater(Len(entry.txns), total, 40) THEN "high" ELSE "medium",
         vendor |-> entry.key,
         amount |-> TotalAmount(entry.txns),
         count |-> Len(entry.txns)]

detectWeekendPayments(txs, startId, proto, zone) ==
    LET weekend(t) == IsWeekendPayment(t, zone)
        weekendPayments == SelectSeq(txs, weekend)
        byVendor == GroupBy(VendorKeys(weekendPayments), weekendPayments, proto)
        flagged(entry) ==
            /\ Len(entry.txns) >= 5
            /\ PercentGreater(Len(entry.txns), TotalForVendor(txs, entry.key), 20)
        hits == SelectSeq(byVendor.entries, flagged)
    IN  IF weekendPayments = <<>> THEN Returned(<<>>, startId, proto)
        ELSE IF byVendor.threw THEN Thrown(startId, proto)
        ELSE Returned([k \in DOMAIN hits |-> WeekendFinding(hits[k], txs)], startId, proto)

----------------------------------------------------------------------------
(* 6. Same-day payments                                                    *)

\* `${t.vendor}|${t.date.split('T')[0]}`
VendorDateKey(t) == t.vendor \o <<"|">> \o SplitFirst(t.date, "T")

SameDayFinding(entry) ==
    LET totalAmount == TotalAmount(entry.txns)
    IN  [type |-> "same_day_payments",
         severity |-> IF Len(entry.txns) >= 5 \/ totalAmount > 50000 THEN "high" ELSE "medium",
         vendor |-> SplitFirst(entry.key, "|"),
         date |-> SplitSecond(entry.key, "|"),
         amount |-> totalAmount,
         count |-> Len(entry.txns)]

detectSameDayPayments(txs, startId, proto) ==
    LET dated(t) == t.date # <<>>
        withDate == SelectSeq(txs, dated)
        groups == GroupBy([i \in DOMAIN withDate |-> VendorDateKey(withDate[i])], withDate, proto)
        flagged(entry) == Len(entry.txns) >= 3
        hits == SelectSeq(groups.entries, flagged)
    IN  IF groups.threw THEN Thrown(startId, proto)
        ELSE Returned([k \in DOMAIN hits |-> SameDayFinding(hits[k])], startId, proto)

----------------------------------------------------------------------------
(* 7. Vendor-name red flags                                                *)

WordLLC == <<"l", "l", "c">>
WordINC == <<"i", "n", "c">>
WordCORP == <<"c", "o", "r", "p">>
GenericWords ==
    { <<"c", "o", "n", "s", "u", "l", "t", "i", "n", "g">>,
      <<"s", "e", "r", "v", "i", "c", "e", "s">>,
      <<"s", "o", "l", "u", "t", "i", "o", "n", "s">>,
      <<"e", "n", "t", "e", "r", "p", "r", "i", "s", "e", "s">>,
      <<"h", "o", "l", "d", "i", "n", "g", "s">> }

\* \bLLC\b at position i, /i
WholeWordAt(s, w, i) ==
    OccursAt(s, w, i) /\ WordBoundary(s, i - 1) /\ WordBoundary(s, i + Len(w) - 1)

\* /\bLLC\b.*\bLLC\b/i
MatchesDoubleLLC(s) ==
    \E i \in 1..Len(s) : \E j \in (i + Len(WordLLC))..Len(s) :
        WholeWordAt(s, WordLLC, i) /\ WholeWordAt(s, WordLLC, j)

\* /^[A-Z]{2,4}\s+(LLC|INC|CORP)/i : with the i flag [A-Z] takes both cases
MatchesAcronym(s) ==
    \E k \in 2..4 : \E m \in 1..Len(s) :
        /\ k + m < Len(s)
        /\ \A i \in 1..k : IsLetter(s[i])
        /\ \A i \in (k + 1)..(k + m) : IsSpace(s[i])
        /\ \/ OccursAt(s, WordLLC, k + m + 1)
           \/ OccursAt(s, WordINC, k + m + 1)
           \/ OccursAt(s, WordCORP, k + m + 1)

\* /consulting|services|solutions|enterprises|holdings/i
MatchesGeneric(s) ==
    \E w \in GenericWords : \E i \in 1..Len(s) : OccursAt(s, w, i)

FirstPatternGenericFirst(vendor) ==
    IF MatchesGeneric(vendor) THEN "Generic business name"
    ELSE IF MatchesDoubleLLC(vendor) THEN "Double LLC"
    ELSE IF MatchesAcronym(vendor) THEN "Acronym company"
    ELSE ""

\* the name of the first of suspiciousPatterns that tests true; "" for none
FirstPattern(vendor) ==
    IF MatchesDoubleLLC(vendor) THEN "Double LLC"
    ELSE IF MatchesAcronym(vendor) THEN "Acronym company"
    ELSE IF MatchesGeneric(vendor) THEN "Generic business name"
    ELSE ""

AddressFinding(entry) ==
    LET total == TotalAmount(entry.txns)
    IN  [type |-> "vendor_name_flag",
         severity |-> IF total > 500000 THEN "medium" ELSE "low",
         pattern |-> FirstPattern(entry.key),
         vendor |-> entry.key,
         amount |-> total,
         count |-> Len(entry.txns)]

detectAddressRedFlags(txs, startId, proto) ==
    LET vendorTotals == VendorTotals(txs, proto)
        flagged(entry) == TotalAmount(entry.txns) >= 50000 /\ FirstPattern(entry.key) # ""
        hits == SelectSeq(vendorTotals.entries, flagged)
    IN  IF vendorTotals.threw THEN Thrown(startId, vendorTotals.proto)
        ELSE Returned([k \in DOMAIN hits |-> AddressFinding(hits[k])], startId, proto)

----------------------------------------------------------------------------
(* 8. High-frequency vendors                                               *)

AboveFiveTimesAverageOfOthers(cnt, transactionCount, vendorCount) ==
    cnt * (vendorCount - 1) > 5 * (transactionCount - cnt)

AtLeastFiveTimesAverage(cnt, transactionCount, vendorCount) ==
    cnt * vendorCount >= 5 * transactionCount

\* stats.count > avgCount * 5, avgCount = (number of transactions) / (number
\* of distinct vendors)
AboveFiveTimesAverage(cnt, transactionCount, vendorCount) ==
    cnt * vendorCount > 5 * transactionCount

FrequencyFinding(entry) ==
    [type |-> "high_frequency",
     severity |-> IF Len(entry.txns) > 100 THEN "high" ELSE "medium",
     vendor |-> entry.key,
     amount |-> TotalAmount(entry.txns),
     count |-> Len(entry.txns)]

detectHighFrequency(txs, startId, proto) ==
    LET vendorStats == VendorTotals(txs, proto)
        flagged(entry) ==
            /\ AboveFiveTimesAverage(Len(entry.txns), Len(txs), Len(vendorStats.entries))
            /\ Len(entry.txns) > 20
        hits == SelectSeq(vendorStats.entries, flagged)
    IN  IF vendorStats.threw THEN Thrown(startId, vendorStats.proto)
        ELSE Returned([k \in DOMAIN hits |-> FrequencyFinding(hits[k])], startId, proto)

----------------------------------------------------------------------------
(* 9. Large outliers                                                       *)

\* element k (1-based) of amounts.sort((a, b) => a - b)
KthSmallest(amounts, k) ==
    CHOOSE v \in {amounts[i] : i \in DOMAIN amounts} :
        /\ Count({i \in DOMAIN amounts : amounts[i] < v}) < k
        /\ k <= Count({i \in DOMAIN amounts : amounts[i] <= v})

\* transactions.map((t) => t.amount).sort((a, b) => a - b)
SortedAmounts(txs) ==
    LET amounts == [i \in DOMAIN txs |-> txs[i].amount]
    IN  [k \in DOMAIN txs |-> KthSmallest(amounts, k)]

\* variant: transactions.sort((a, b) => a.amount - b.amount), in place
ArraySortedInPlace(txs) ==
    LET rank(i) == Count({j \in DOMAIN txs : txs[j].amount < txs[i].amount})
                   + Count({j \in 1..i : txs[j].amount = txs[i].amount})
    IN  [k \in DOMAIN txs |-> txs[CHOOSE i \in DOMAIN txs : rank(i) = k]]

\* the input array after detectOutliers: map() made the array that is sorted
ArrayAfterOutliers(txs) == txs

\* q3 + iqr * 3, with q3 = amounts[floor(n * 0.75)], q1 = amounts[floor(n * 0.25)]
UpperFence(txs) ==
    LET amounts == SortedAmounts(txs)
        n == Len(txs)
        q3 == amounts[(3 * n) \div 4 + 1]
        q1 == amounts[n \div 4 + 1]
    IN  q3 + (q3 - q1) * 3

OutlierMinAmount == 1000000
OutlierCriticalAmount == 10000000
OutlierLimit == 10

\* transactions.filter((t) => t.amount > upperFence && t.amount > 1000000);
\* for the empty input upperFence is NaN and there is nothing to filter
Outliers(txs) ==
    LET fence == UpperFence(txs)
        extreme(t) == t.amount > fence /\ t.amount > OutlierMinAmount
    IN  IF txs = <<>> THEN <<>> ELSE SelectSeq(txs, extreme)

LastTen(outliers) ==
    IF Len(outliers) <= OutlierLimit THEN outliers
    ELSE SubSeq(outliers, Len(outliers) - OutlierLimit + 1, Len(outliers))

\* outliers.slice(0, 10)
FirstTen(outliers) ==
    IF Len(outliers) <= OutlierLimit THEN outliers ELSE SubSeq(outliers, 1, OutlierLimit)

OutlierFinding(t) ==
    [type |-> "large_outlier",
     severity |-> IF t.amount > OutlierCriticalAmount THEN "critical" ELSE "high",
     vendor |-> t.vendor,
     department |-> t.department,
     amount |-> t.amount]

detectOutliers(txs, startId, proto) ==
    LET shown == FirstTen(Outliers(txs))
    IN  Returned([k \in DOMAIN shown |-> OutlierFinding(shown[k])], startId, proto)

----------------------------------------------------------------------------
(* 10. Vendor concentration                                                *)

\* for (const t of txs) vendorTotals[t.vendor] = (vendorTotals[t.vendor] || 0) + t.amount
\* The first read of a key sees the inherited value; a function or object
\* there makes the sum a string, and every later sum with it.  Assigning a
\* string to the key "__proto__" calls the prototype setter, which ignores it.
ConcentrationTotals(txs, proto) ==
    LET keys == VendorKeys(txs)
        own(i) == keys[i] # NameProto /\ \A j \in 1..(i - 1) : keys[j] # keys[i]
        firsts == SelectSeq(Positions(keys), own)
        start(v) == IF Truthy(ProtoGet(proto, v)) THEN ProtoGet(proto, v) ELSE Num(0)
    IN  [k \in DOMAIN firsts |->
            [key |-> keys[firsts[k]],
             value |-> Plus(start(keys[firsts[k]]),
                            TotalAmount(Members(keys, txs, keys[firsts[k]])))]]

\* Object.values(vendorTotals).reduce((a, b) => a + b, 0)
RECURSIVE SumValues(_, _)
SumValues(entries, i) ==
    IF i = 0 THEN Num(0)
    ELSE LET before == SumValues(entries, i - 1)
         IN  IF before.t = "number" /\ entries[i].value.t = "number"
             THEN Num(before.n + entries[i].value.n)
             ELSE StringValue

FirstVendor(entries) == entries[1]

\* sortedVendors[0]: sort((a, b) => b - a) is stable, so of the vendors with
\* the largest total the one inserted first comes first
TopVendor(entries) ==
    LET best == CHOOSE i \in DOMAIN entries :
                    /\ \A j \in DOMAIN entries : entries[j].value.n <= entries[i].value.n
                    /\ \A j \in 1..(i - 1) : entries[j].value.n < entries[i].value.n
    IN  entries[best]

\* variant: sortedVendors[0] is read without the length test
HasVendorsUnchecked(entries) == TRUE

\* sortedVendors.length > 0
HasVendors(entries) == Len(entries) > 0

ConcentrationFinding(top, totalSpending) ==
    [type |-> "vendor_concentration",
     severity |-> IF PercentGreater(top.value.n, totalSpending, 25) THEN "high" ELSE "medium",
     vendor |-> top.key,
     amount |-> top.value.n]

\* A non-numeric total (string) makes every percentage NaN, and so does a
\* grand total of 0 (0 / 0): NaN > 15 is false.
detectVendorConcentration(txs, startId, proto) ==
    LET vendorTotals == ConcentrationTotals(txs, proto)
        totalSpending == SumValues(vendorTotals, Len(vendorTotals))
        top == TopVendor(vendorTotals)
    IN  IF ~HasVendors(vendorTotals) THEN Returned(<<>>, startId, proto)
        ELSE IF vendorTotals = <<>> THEN Thrown(startId, proto)
        ELSE IF totalSpending.t # "number" \/ totalSpending.n = 0
             THEN Returned(<<>>, startId, proto)
        ELSE IF PercentGreater(top.value.n, totalSpending.n, 15)
             THEN Returned(<<ConcentrationFinding(top, totalSpending.n)>>, startId, proto)
             ELSE Returned(<<>>, startId, proto)

----------------------------------------------------------------------------
(* analyzeTransactions                                                     *)

NameAmount == <<"a", "m", "o", "u", "n", "t">>

\* a.amount || 0 : an anomaly without an own amount inherits the lookup
FlaggedAmount(a, proto) ==
    IF "amount" \in DOMAIN a THEN a.amount
    ELSE LET inherited == ProtoGet(proto, NameAmount)
         IN  IF inherited.t = "number" THEN inherited.n ELSE 0

RECURSIVE SumFlagged(_, _, _)
SumFlagged(found, i, proto) ==
    IF i = 0 THEN 0 ELSE SumFlagged(found, i - 1, proto) + FlaggedAmount(found[i], proto)

\* variant: every distinct amount is added once
TotalFlaggedDistinct(found, proto) ==
    LET amounts == {FlaggedAmount(found[i], proto) : i \in DOMAIN found}
        RECURSIVE SumSet(_)
        SumSet(S) == IF S = {} THEN 0
                     ELSE LET x == CHOOSE x \in S : TRUE IN x + SumSet(S \ {x})
    IN  SumSet(amounts)

\* anomalies.reduce((sum, a) => sum + (a.amount || 0), 0)
TotalFlaggedAmount(found, proto) == SumFlagged(found, Len(found), proto)

\* anomalies.filter((a) => a.severity === severity).length
SeverityCount(found, severity) ==
    Count({i \in DOMAIN found : found[i].severity = severity})

Stats(found, proto) ==
    [totalAnomalies |-> Len(found),
     criticalCount |-> SeverityCount(found, "critical"),
     highCount |-> SeverityCount(found, "high"),
     mediumCount |-> SeverityCount(found, "medium"),
     lowCount |-> SeverityCount(found, "low"),
     totalFlaggedAmount |-> TotalFlaggedAmount(found, proto)]

\* variant: the outlier findings are pushed before the frequency findings
CollectSwapped(benford, duplicate, threshold, roundNumber, weekend, sameDay, address, frequency, outlier, concentration) ==
    benford \o duplicate \o threshold \o roundNumber \o weekend \o sameDay
        \o address \o outlier \o frequency \o concentration

\* anomalies.push(...) of the ten methods' findings, in the order of the calls
Collect(benford, duplicate, threshold, roundNumber, weekend, sameDay, address, frequency, outlier, concentration) ==
    benford \o duplicate \o threshold \o roundNumber \o weekend \o sameDay
        \o address \o frequency \o outlier \o concentration

\* let anomalyId = 0
FirstAnomalyId == 0

\* const result = method(transactions, anomalyId); anomalies.push(...result.anomalies);
\* anomalyId = result.nextId
Pushed(before, result) ==
    [threw |-> result.threw, nextId |-> result.nextId, proto |-> result.proto,
     parts |-> Append(before.parts, result.anomalies)]

\* The ten method calls; an exception in an earlier one has ended the call.
RunBenford(before, txs) ==
    IF before.threw THEN before
    ELSE Pushed(before, analyzeBenfordsLaw(txs, before.nextId, before.proto))

RunDuplicate(before, txs) ==
    IF before.threw THEN before
    ELSE Pushed(before, detectDuplicatePayments(txs, before.nextId, before.proto))

RunThreshold(before, txs) ==
    IF before.threw THEN before
    ELSE Pushed(before, detectThresholdAvoidance(txs, before.nextId, before.proto))

RunRound(before, txs) ==
    IF before.threw THEN before
    ELSE Pushed(before, detectRoundNumbers(txs, before.nextId, before.proto))

\* new Date(...).getDay() reads the time zone of the host
RunWeekend(before, txs, zone) ==
    IF before.threw THEN before
    ELSE Pushed(before, detectWeekendPayments(txs, before.nextId, before.proto, zone))

RunSameDay(before, txs) ==
    IF before.threw THEN before
    ELSE Pushed(before, detectSameDayPayments(txs, before.nextId, before.proto))

RunAddress(before, txs) ==
    IF before.threw THEN before
    ELSE Pushed(before, detectAddressRedFlags(txs, before.nextId, before.proto))

RunFrequency(before, txs) ==
    IF before.threw THEN before
    ELSE Pushed(before, detectHighFrequency(txs, before.nextId, before.proto))

RunOutliers(before, txs) ==
    IF before.threw THEN before
    ELSE Pushed(before, detectOutliers(txs, before.nextId, before.proto))

RunConcentration(before, txs) ==
    IF before.threw THEN before
    ELSE Pushed(before, detectVendorConcentration(txs, before.nextId, before.proto))

\* let anomalyId = 0 and const anomalies = []
Start(proto) ==
    [threw |-> FALSE, nextId |-> FirstAnomalyId, proto |-> proto, parts |-> <<>>]

\* the ten method calls, in the order of the code
Methods(txs, proto, zone) ==
    RunConcentration(RunOutliers(RunFrequency(RunAddress(RunSameDay(
        RunWeekend(RunRound(RunThreshold(RunDuplicate(RunBenford(
            Start(proto), txs), txs), txs), txs), txs, zone),
        txs), txs), txs), txs), ArrayAfterOutliers(txs))

\* the input array as the call leaves it: detectOutliers is the ninth method
ArrayAfter(last, txs) ==
    IF Len(last.parts) >= 9 THEN ArrayAfterOutliers(txs) ELSE txs

Found(last) ==
    Collect(last.parts[1], last.parts[2], last.parts[3], last.parts[4], last.parts[5],
            last.parts[6], last.parts[7], last.parts[8], last.parts[9], last.parts[10])

\* return { anomalies, stats }, or the exception of the method that failed
Result(last, txs) ==
    IF last.threw
    THEN [threw |-> TRUE, anomalies |-> <<>>, stats |-> [null |-> TRUE],
          proto |-> last.proto, transactions |-> ArrayAfter(last, txs)]
    ELSE [threw |-> FALSE, anomalies |-> Found(last), stats |-> Stats(Found(last), last.proto),
          proto |-> last.proto, transactions |-> ArrayAfter(last, txs)]

\* The ten methods run in sequence, each starting at the id the one before
\* returned; an exception in one ends the call.  The result carries
\* Object.prototype and the input array as the call leaves them.
analyzeTransactions(txs, proto, zone) == Result(Methods(txs, proto, zone), txs)

----------------------------------------------------------------------------
(* Inputs                                                                  *)

VendorBeta == <<"B", "e", "t", "a", " ", "S", "e", "r", "v", "i", "c", "e", "s", " ", "L", "L", "C">>
\* "AB LLC Holdings LLC" tests true on all three of suspiciousPatterns,
\* "AB Inc Solutions" on the second and the third, "abc llc" on the second
VendorTwin == <<"A", "B", " ", "L", "L", "C", " ", "H", "o", "l", "d", "i", "n", "g", "s", " ", "L", "L", "C">>
VendorLower == <<"a", "b", "c", " ", "l", "l", "c">>
VendorAbco == <<"A", "B", " ", "I", "n", "c", " ", "S", "o", "l", "u", "t", "i", "o", "n", "s">>
\* "AB LLC|X" tests true on the second and holds the | of the grouping keys
VendorPipe == <<"A", "B", " ", "L", "L", "C", "|", "X">>
VendorAcme == <<"A", "c", "m", "e", " ", "L", "L", "C">>
VendorBolt == <<"B", "o", "l", "t">>
VendorCory == <<"C", "o", "r", "y">>
VendorDune == <<"D", "u", "n", "e">>
VendorEcho == <<"E", "c", "h", "o">>
DeptParks == <<"P", "a", "r", "k", "s">>
DeptFire == <<"F", "i", "r", "e">>
\* 2024-01-06 is a Saturday, 2024-01-07 a Sunday, 2024-01-08 a Monday
DateSaturday == <<"2", "0", "2", "4", "-", "0", "1", "-", "0", "6", "T", "0", "0", ":", "0", "0", ":", "0", "0">>
DateMonday == <<"2", "0", "2", "4", "-", "0", "1", "-", "0", "8", "T", "0", "0", ":", "0", "0", ":", "0", "0">>
DateSundayOnly == <<"2", "0", "2", "4", "-", "0", "1", "-", "0", "7">>
DateUnparseable == <<"n", "/", "a">>

Txn(vendor, department, amount, date) ==
    [department |-> department, vendor |-> vendor, amount |-> amount, date |-> date]

\* the transactions of the short inputs
SmallTxns ==
    { Txn(VendorBolt, DeptParks, 9900, DateSaturday),
      Txn(<<>>, <<>>, 9900, DateSundayOnly),
      Txn(VendorCory, DeptFire, 0, <<>>),
      Txn(NameConstructor, DeptParks, 500, DateMonday),
      Txn(NameProto, DeptFire, 700, <<>>),
      Txn(NameTotal, DeptParks, 11000000, DateUnparseable),
      Txn(VendorPipe, DeptParks, 60000, DateMonday) }

\* longest short input
MaxLen == 3

RECURSIVE SeqsUpTo(_, _)
SeqsUpTo(S, n) ==
    IF n = 0 THEN {<<>>}
    ELSE LET shorter == SeqsUpTo(S, n - 1)
         IN  shorter \union {Append(q, x) : q \in shorter, x \in S}

SmallInputs == SeqsUpTo(SmallTxns, MaxLen)

\* n copies of t
Repeat(t, n) == [i \in 1..n |-> t]

\* the batches the long inputs are put together from
Batches ==
    << Repeat(Txn(VendorBeta, DeptParks, 9900, DateSaturday), BenfordMinSample - 1),
       Repeat(Txn(VendorBeta, DeptFire, 9900, DateSaturday), 1),
       Repeat(Txn(VendorAcme, DeptFire, 10000, DateMonday), 4),
       Repeat(Txn(VendorBolt, DeptParks, 50000000, DateMonday), 1),
       Repeat(Txn(VendorCory, DeptFire, 40, <<>>), 1),
       Repeat(Txn(VendorDune, DeptParks, 250, DateSundayOnly), 1),
       Repeat(Txn(VendorEcho, DeptFire, 70, DateUnparseable), 1) >>

RECURSIVE Concat(_, _)
Concat(chosen, n) ==
    IF n = 0 THEN <<>>
    ELSE Concat(chosen, n - 1) \o (IF n \in chosen THEN Batches[n] ELSE <<>>)

\* every selection of batches, concatenated in the order of Batches
BatchInputs == {Concat(chosen, Len(Batches)) : chosen \in SUBSET DOMAIN Batches}

Inputs == SmallInputs \union BatchInputs

----------------------------------------------------------------------------
(* The alerts page: fetch the transactions, analyse them, keep the result  *)

\* useState<AnomalyStats | null>(null)
NullStats == [null |-> TRUE]

\* the page is mounted: nothing fetched, nothing analysed
Init ==
    /\ transactions = <<>>
    /\ outcome = "loading"
    /\ anomalies = <<>>
    /\ stats = NullStats
    /\ objectPrototype = PristinePrototype
    /\ timezone \in {"west", "utc"}

\* the data fetcher delivers the array of transactions
Fetch(txs) ==
    /\ outcome = "loading"
    /\ transactions' = txs
    /\ outcome' = "fetched"
    /\ UNCHANGED <<anomalies, stats, objectPrototype, timezone>>

\* const result = analyzeTransactions(transactions); setAnomalies; setStats;
\* the catch block logs an exception and leaves the page state alone
Analyze ==
    /\ outcome = "fetched"
    /\ LET result == analyzeTransactions(transactions, objectPrototype, timezone)
       IN  /\ transactions' = result.transactions
           /\ objectPrototype' = result.proto
           /\ IF result.threw
              THEN outcome' = "threw" /\ UNCHANGED <<anomalies, stats>>
              ELSE /\ outcome' = "returned"
                   /\ anomalies' = result.anomalies
                   /\ stats' = result.stats
    /\ UNCHANGED timezone

\* the page is left and mounted again in the same JavaScript realm:
\* component state starts over, Object.prototype is what the calls left
Remount ==
    /\ outcome \in {"returned", "threw"}
    /\ transactions' = <<>>
    /\ outcome' = "loading"
    /\ anomalies' = <<>>
    /\ stats' = NullStats
    /\ UNCHANGED <<objectPrototype, timezone>>

Next ==
    \/ \E txs \in Inputs : Fetch(txs)
    \/ Analyze
    \/ Remount

Spec == Init /\ [][Next]_vars

----------------------------------------------------------------------------
(* Properties                                                              *)

Analysed == outcome \in {"returned", "threw"}

ZeroStats ==
    [totalAnomalies |-> 0, criticalCount |-> 0, highCount |-> 0, mediumCount |-> 0,
     lowCount |-> 0, totalFlaggedAmount |-> 0]

\* C1: analyzeTransactions of the empty array returns no anomalies and stats
\* that are all 0.
C1_EmptyInput ==
    (Analysed /\ transactions = <<>>) =>
        /\ outcome = "returned"
        /\ anomalies = <<>>
        /\ stats = ZeroStats

C1_Witness == outcome = "returned" /\ transactions = <<>> /\ stats = ZeroStats

SingleTransaction(txs) == Len(txs) = 1
AllIdentical(txs) == Len(txs) >= 2 /\ \A i \in DOMAIN txs : txs[i] = txs[1]
AllZeroAmounts(txs) == Len(txs) >= 1 /\ \A i \in DOMAIN txs : txs[i].amount = 0
RepeatedVendorDate(txs) ==
    \E i, j \in DOMAIN txs :
        i # j /\ txs[i].vendor = txs[j].vendor /\ txs[i].date = txs[j].date

\* C2: analyzeTransactions never throws and returns well-formed
\* {anomalies, stats} for the empty input, a single transaction, all-identical
\* transactions, all-zero amounts and repeated (vendor, date) combinations.
C2_DegenerateInputsReturn ==
    (/\ Analysed
     /\ \/ transactions = <<>>
        \/ SingleTransaction(transactions)
        \/ AllIdentical(transactions)
        \/ AllZeroAmounts(transactions)
        \/ RepeatedVendorDate(transactions)) =>
        /\ outcome = "returned"
        /\ stats # NullStats
        /\ stats.totalAnomalies = Len(anomalies)

\* C3: analyzeTransactions is total: whatever the vendor and department
\* strings are, the call returns and has no error outcome.
C3_NeverThrows == outcome # "threw"

C5_InputNotMutated == [][outcome = "fetched" => transactions' = transactions]_vars

\* an analysed input that is not in ascending order of amount
C5_Witness ==
    /\ outcome = "returned"
    /\ \E i, j \in DOMAIN transactions :
          i < j /\ transactions[i].amount > transactions[j].amount

\* the findings as a set, each reduced to its kind, severity, vendor, amount
\* and count
Content(found) ==
    {[f \in DOMAIN found[k] \cap {"type", "severity", "vendor", "amount", "count"}
        |-> found[k][f]] : k \in DOMAIN found}

Orderings(n) == {p \in [1..n -> 1..n] : \A i, j \in 1..n : p[i] = p[j] => i = j}

\* C6: two inputs that are permutations of one another yield the same set of
\* anomalies (kind, severity, vendor, amount, count), ids apart.
C6_OrderIndependent ==
    (outcome = "returned" /\ Len(transactions) <= MaxLen) =>
        \A p \in Orderings(Len(transactions)) :
            LET permuted == [i \in DOMAIN transactions |-> transactions[p[i]]]
                other == analyzeTransactions(permuted, objectPrototype, timezone)
            IN  ~other.threw /\ Content(other.anomalies) = Content(anomalies)

\* C7: the anomaly at 0-based position i has the id "anomaly-i": the ids of
\* a run are 0 .. totalAnomalies - 1, without gap or repeat.
C7_IdsSequential ==
    outcome = "returned" =>
        /\ \A k \in DOMAIN anomalies : anomalies[k].id = IdPrefix \o NumberToString(k - 1)
        /\ \A k, m \in DOMAIN anomalies : k # m => anomalies[k].id # anomalies[m].id
        /\ stats.totalAnomalies = Len(anomalies)

Types(found) == {found[k].type : k \in DOMAIN found}

\* more than ten findings, of several methods
C7_Witness ==
    /\ outcome = "returned"
    /\ Len(anomalies) > 10
    /\ Cardinality(Types(anomalies)) >= 5

MethodOrder ==
    << "benfords_law", "duplicate_payments", "threshold_avoidance", "round_numbers",
       "weekend_payments", "same_day_payments", "vendor_name_flag", "high_frequency",
       "large_outlier", "vendor_concentration" >>

MethodRank(type) == CHOOSE r \in DOMAIN MethodOrder : MethodOrder[r] = type

\* C8: every anomaly's type is one of the ten tags and the findings appear
\* in the fixed method order: none of a later method precedes one of an
\* earlier method.
C8_MethodOrder ==
    outcome = "returned" =>
        /\ \A k \in DOMAIN anomalies : \E r \in DOMAIN MethodOrder : MethodOrder[r] = anomalies[k].type
        /\ \A k, m \in DOMAIN anomalies :
              k < m => MethodRank(anomalies[k].type) <= MethodRank(anomalies[m].type)

\* a run in which all ten methods have findings
C8_Witness ==
    /\ outcome = "returned"
    /\ Types(anomalies) = {MethodOrder[r] : r \in DOMAIN MethodOrder}

OwnAmount(a) == IF "amount" \in DOMAIN a THEN a.amount ELSE 0

RECURSIVE OwnAmountSum(_, _)
OwnAmountSum(found, n) ==
    IF n = 0 THEN 0 ELSE OwnAmountSum(found, n - 1) + OwnAmount(found[n])

WithSeverity(severity) == {k \in DOMAIN anomalies : anomalies[k].severity = severity}

\* C9: the stats are computed from the final anomaly sequence: its length,
\* the number of anomalies of each severity (the four adding up to the
\* length), and the plain sum of the amounts, an absent amount counting 0 and
\* nothing being deduplicated.
C9_StatsFromAnomalies ==
    outcome = "returned" =>
        /\ stats.totalAnomalies = Len(anomalies)
        /\ stats.criticalCount = Cardinality(WithSeverity("critical"))
        /\ stats.highCount = Cardinality(WithSeverity("high"))
        /\ stats.mediumCount = Cardinality(WithSeverity("medium"))
        /\ stats.lowCount = Cardinality(WithSeverity("low"))
        /\ stats.criticalCount + stats.highCount + stats.mediumCount + stats.lowCount
              = stats.totalAnomalies
        /\ stats.totalFlaggedAmount = OwnAmountSum(anomalies, Len(anomalies))

\* transactions flagged by several methods: more is flagged than was paid,
\* and one finding has no amount
C9_Witness ==
    /\ outcome = "returned"
    /\ stats.totalFlaggedAmount > TotalAmount(transactions)
    /\ \E k \in DOMAIN anomalies : "amount" \notin DOMAIN anomalies[k]
    /\ stats.criticalCount > 0 /\ stats.highCount > 0 /\ stats.mediumCount > 0

\* the number of transactions with amount >= 100
Qualifying(txs) == Cardinality({i \in DOMAIN txs : txs[i].amount >= 100})

\* C10: with fewer than 100 transactions of amount >= 100 the Benford check
\* emits no anomaly, whatever the leading digits are.
C10_BenfordNeedsSample ==
    (outcome = "returned" /\ Qualifying(transactions) < 100) =>
        \A k \in DOMAIN anomalies : anomalies[k].type # "benfords_law"

\* 99 qualifying transactions, all with leading digit 9
C10_Witness ==
    /\ outcome = "returned"
    /\ Qualifying(transactions) = 99
    /\ \A i \in DOMAIN transactions :
          transactions[i].amount >= 100 => FirstDigit(transactions[i].amount) = 9
    /\ \A k \in DOMAIN anomalies : anomalies[k].type # "benfords_law"

----------------------------------------------------------------------------
(* The detection methods one by one: an input is drawn and one method is   *)
(* applied to it, with the id counter at its initial value                 *)

\* an amount whose decimal form starts with digit
DigitAmount(digit) == 110 * digit

\* counts[d] payments with leading digit d, for d = 1, ..., upTo
RECURSIVE DigitRuns(_, _)
DigitRuns(counts, upTo) ==
    IF upTo = 0 THEN <<>>
    ELSE DigitRuns(counts, upTo - 1)
             \o Repeat(Txn(VendorCory, DeptFire, DigitAmount(upTo), <<>>), counts[upTo])

\* hundreds payments of 100 to one vendor, then counts[d] payments with
\* leading digit d to another
Sample(hundreds, counts) ==
    Repeat(Txn(VendorBeta, DeptParks, 100, <<>>), hundreds) \o DigitRuns(counts, 9)

\* 100 payments close to the reference distribution
NaturalHundred == <<30, 18, 12, 10, 8, 7, 6, 5, 4>>

\* largest number of payments moved from digit 1 to another digit
MaxShift == 12

\* largest number of thousands of reference-distributed payments
MaxThousands == 2

ShiftedSamples ==
    {Sample(0, [NaturalHundred EXCEPT ![1] = @ - shift, ![d] = @ + shift]) :
        d \in 2..9, shift \in 0..MaxShift}

\* samples in which one digit's share is exactly 0.05 or 0.10 away from the
\* expected share
BoundarySamples ==
    { Sample(0, <<75, 69, 31, 24, 20, 13, 9, 5, 4>>),
      Sample(0, <<160, 113, 67, 52, 43, 29, 18, 10, 8>>),
      Sample(0, <<36, 21, 21, 12, 9, 8, 7, 6, 0>>) }

\* 150 payments of 100 to one vendor among thousands of payments whose
\* leading digits have exactly the reference shares
ScenarioSamples ==
    {Sample(150, [d \in 1..9 |-> thousands * BENFORD_EXPECTED[d]]) :
        thousands \in 0..MaxThousands}

BenfordSamples == ShiftedSamples \union BoundarySamples \union ScenarioSamples

\* longest run of equal payments in an input
MaxRun == 5

\* count equal payments
Run(vendor, department, amount, date, count) ==
    Repeat(Txn(vendor, department, amount, date), count)

\* a run of equal payments, one payment of another amount to the same
\* vendor, then none or three payments to the same or another vendor
DuplicateInputs ==
    {Run(VendorBolt, DeptParks, amount, DateMonday, count)
        \o Run(VendorBolt, DeptParks, 1002, DateMonday, 1)
        \o Run(vendor, DeptFire, other, <<>>, more) :
        amount \in {1000, 1001, 25000, 25001}, count \in 1..MaxRun,
        vendor \in {VendorBolt, VendorCory}, other \in {1001, 25001}, more \in {0, 3}}

\* a run of payments near the 10,000 threshold to "Acme LLC", then none, two
\* or three payments near that or the 2,500 threshold to it or to another
ThresholdInputs ==
    {Run(VendorAcme, DeptParks, amount, DateMonday, count)
        \o Run(vendor, DeptFire, other, <<>>, more) :
        amount \in {9499, 9500, 9950, 9999, 10000}, count \in 1..MaxRun,
        vendor \in {VendorAcme, VendorBolt}, other \in {9500, 2400}, more \in {0, 2, 3}}

\* a run of round payments to one vendor, then a run of payments that are
\* not round, to it or to another vendor
RoundInputs ==
    {Run(VendorBolt, DeptParks, amount, DateMonday, count)
        \o Run(vendor, DeptFire, 5001, <<>>, more) :
        amount \in {10000, 5000, 7000, 4000}, count \in {3, 4, MaxRun, 2 * MaxRun},
        vendor \in {VendorBolt, VendorCory}, more \in {0, 3, 4, MaxRun, 2 * MaxRun}}

\* 2024-01-08, a Monday, without time; 2024-01-06, a Saturday, late evening
DateMondayOnly == <<"2", "0", "2", "4", "-", "0", "1", "-", "0", "8">>
DateSaturdayLate == <<"2", "0", "2", "4", "-", "0", "1", "-", "0", "6", "T", "2", "3", ":", "3", "0", ":", "0", "0">>

\* a run of payments with one date, then a run of payments to the same vendor
\* with another date or none
DatedInputs ==
    {Run(VendorBolt, DeptParks, amount, date, count)
        \o Run(VendorBolt, DeptFire, 800, other, more) :
        amount \in {700, 20000}, count \in {2, 3, 5, 6},
        date \in {DateSaturday, DateSundayOnly, DateMondayOnly, DateMonday, DateUnparseable},
        other \in {DateMonday, <<>>, DateSaturdayLate}, more \in {0, 7, 8, 19, 20}}


\* one or two equal payments to a vendor, then none, one or two payments to
\* the same or another vendor
VendorNameInputs ==
    {Run(vendor, DeptParks, amount, DateMonday, count)
        \o Run(other, DeptFire, 250001, <<>>, more) :
        vendor \in {VendorTwin, VendorAbco, VendorLower, VendorAcme, VendorBeta, VendorBolt},
        amount \in {24999, 25000, 49999, 50000, 250000, 300000, 500000, 500001, 600000},
        count \in 1..2, other \in {VendorBeta, VendorTwin, VendorBolt}, more \in 0..2}

\* the most small vendors of an input
MaxVendors == 12

\* the name "V1", "V2", ... of a small vendor
VendorNumbered(i) == <<"V">> \o NumberToString(i)

\* each payments of amount to each of the small vendors 1..vendors
Crowd(vendors, each, amount) ==
    [j \in 1..(vendors * each) |->
        Txn(VendorNumbered(((j - 1) \div each) + 1), DeptFire, amount, DateMonday)]

\* a run of payments to one vendor, none or a run to a second vendor, then
\* one or three payments to each of some small vendors
FrequencyInputs ==
    {Run(VendorBolt, DeptParks, 700, DateMonday, count)
        \o Run(VendorCory, DeptParks, 700, DateMonday, other)
        \o Crowd(vendors, each, 900) :
        count \in {20, 21, 25, 26, 100, 101}, other \in {0, 21, 30},
        vendors \in 0..MaxVendors, each \in {1, 3}}

\* the most large payments of an input
MaxBig == 14

\* amounts around the two limits of the outlier check
BigAmounts == <<50000000, 1000001, 10000000, 1000000, 10000001>>

\* count large payments, each to a vendor of its own, their amounts taken in
\* turn from BigAmounts starting at first
BigPayments(count, first) ==
    [j \in 1..count |->
        Txn(VendorNumbered(j), DeptParks, BigAmounts[((first + j - 2) % Len(BigAmounts)) + 1],
            DateMonday)]

\* some payments of 5000 to one vendor before or after some large payments
OutlierInputs ==
    {IF smallFirst
     THEN Run(VendorBolt, DeptFire, 5000, DateMonday, small) \o BigPayments(big, first)
     ELSE BigPayments(big, first) \o Run(VendorBolt, DeptFire, 5000, DateMonday, small) :
        small \in {0, 1, 2, 3, 4, 5, 36, 48}, big \in 0..MaxBig,
        first \in DOMAIN BigAmounts, smallFirst \in BOOLEAN}

\* the most small vendors beside the one or two larger ones
MaxCrowd == 7

\* none, one or two payments to a first vendor, none or one to a second, then
\* one payment to each of some small vendors; the totals put the largest
\* share at, just above and below 15% and 25%
ConcentrationInputs ==
    {Run(VendorBolt, DeptParks, amount, DateMonday, count)
        \o Run(VendorCory, DeptParks, other, DateMonday, more)
        \o Crowd(vendors, 1, each) :
        amount \in {0, 15, 16, 25, 26}, count \in 0..2, other \in {0, 1, 29},
        more \in 0..1, vendors \in 0..MaxCrowd, each \in {0, 14, 15}}

MethodInputs ==
    BenfordSamples \union DuplicateInputs \union ThresholdInputs \union RoundInputs
        \union DatedInputs \union VendorNameInputs \union FrequencyInputs
        \union OutlierInputs \union ConcentrationInputs

\* an input has been drawn and no method applied yet
MethodInit ==
    /\ transactions \in MethodInputs
    /\ outcome = "input"
    /\ anomalies = <<>>
    /\ stats = NullStats
    /\ objectPrototype = PristinePrototype
    /\ timezone \in {"west", "utc"}

\* the page state after one method: its findings, or its exception
Applied(result, type) ==
    /\ outcome' = IF result.threw THEN "threw" ELSE type
    /\ anomalies' = result.anomalies
    /\ objectPrototype' = result.proto
    /\ UNCHANGED <<transactions, stats, timezone>>

ApplyBenford ==
    /\ outcome = "input"
    /\ transactions \in BenfordSamples
    /\ Applied(analyzeBenfordsLaw(transactions, FirstAnomalyId, objectPrototype),
               "benfords_law")

ApplyDuplicates ==
    /\ outcome = "input"
    /\ transactions \in DuplicateInputs
    /\ Applied(detectDuplicatePayments(transactions, FirstAnomalyId, objectPrototype),
               "duplicate_payments")

ApplyThreshold ==
    /\ outcome = "input"
    /\ transactions \in ThresholdInputs
    /\ Applied(detectThresholdAvoidance(transactions, FirstAnomalyId, objectPrototype),
               "threshold_avoidance")

ApplyRound ==
    /\ outcome = "input"
    /\ transactions \in RoundInputs
    /\ Applied(detectRoundNumbers(transactions, FirstAnomalyId, objectPrototype),
               "round_numbers")

ApplyWeekend ==
    /\ outcome = "input"
    /\ transactions \in DatedInputs
    /\ Applied(detectWeekendPayments(transactions, FirstAnomalyId, objectPrototype, timezone),
               "weekend_payments")

ApplySameDay ==
    /\ outcome = "input"
    /\ transactions \in DatedInputs
    /\ Applied(detectSameDayPayments(transactions, FirstAnomalyId, objectPrototype),
               "same_day_payments")

ApplyAddress ==
    /\ outcome = "input"
    /\ transactions \in VendorNameInputs
    /\ Applied(detectAddressRedFlags(transactions, FirstAnomalyId, objectPrototype),
               "vendor_name_flag")

ApplyFrequency ==
    /\ outcome = "input"
    /\ transactions \in FrequencyInputs
    /\ Applied(detectHighFrequency(transactions, FirstAnomalyId, objectPrototype),
               "high_frequency")

ApplyOutliers ==
    /\ outcome = "input"
    /\ transactions \in OutlierInputs
    /\ Applied(detectOutliers(transactions, FirstAnomalyId, objectPrototype),
               "large_outlier")

ApplyConcentration ==
    /\ outcome = "input"
    /\ transactions \in ConcentrationInputs
    /\ Applied(detectVendorConcentration(transactions, FirstAnomalyId, objectPrototype),
               "vendor_concentration")

MethodNext ==
    \/ ApplyBenford
    \/ ApplyDuplicates
    \/ ApplyThreshold
    \/ ApplyRound
    \/ ApplyWeekend
    \/ ApplySameDay
    \/ ApplyAddress
    \/ ApplyFrequency
    \/ ApplyOutliers
    \/ ApplyConcentration

MethodSpec == MethodInit /\ [][MethodNext]_vars

\* 1000 * count of the payments of at least 100 whose leading digit is d,
\* less expected share * number of those payments: the exact deviation of
\* digit d, times 1000 * total
ExactDeviation(txs, d) ==
    LET amounts == BenfordAmounts(txs)
        diff == 1000 * FirstDigitCount(amounts, d) - BENFORD_EXPECTED[d] * Len(amounts)
    IN  IF diff < 0 THEN 0 - diff ELSE diff

\* some digit's share is more than bound thousandths away from the expected
ExactlyDeviates(txs, bound) ==
    \E d \in 1..9 : ExactDeviation(txs, d) > bound * Qualifying(txs)

\* C11: with at least 100 payments of at least 100 the Benford check emits
\* exactly one anomaly if some digit's share deviates from the expected share
\* by more than 0.05 and none otherwise; the severity is high if some
\* deviation exceeds 0.10 and medium otherwise.
C11_BenfordRule ==
    (outcome = "benfords_law" /\ Qualifying(transactions) >= 100) =>
        /\ Len(anomalies) = (IF ExactlyDeviates(transactions, 50) THEN 1 ELSE 0)
        /\ \A k \in DOMAIN anomalies :
              /\ anomalies[k].type = "benfords_law"
              /\ anomalies[k].severity =
                    (IF ExactlyDeviates(transactions, 100) THEN "high" ELSE "medium")

\* the scenario: 150 payments of 100 to one vendor, and other payments
\* whose leading digits have exactly the reference shares
Hundreds(txs) ==
    Count({i \in DOMAIN txs : txs[i].vendor = VendorBeta /\ txs[i].amount = 100})

OtherCount(txs, d) ==
    Count({i \in DOMAIN txs : txs[i].vendor # VendorBeta /\ FirstDigit(txs[i].amount) = d})

IsScenario(txs) ==
    /\ Hundreds(txs) = 150
    /\ \A i \in DOMAIN txs : txs[i].amount >= 100
    /\ \E thousands \in 0..MaxThousands :
          \A d \in 1..9 : OtherCount(txs, d) = thousands * BENFORD_EXPECTED[d]

ScenarioExcess == 150 * (1000 - BENFORD_EXPECTED[1])

SamePayment(txs, i) ==
    {j \in DOMAIN txs : txs[j].vendor = txs[i].vendor /\ txs[j].amount = txs[i].amount}

\* the first transactions of the (vendor, amount) groups of at least 3
\* payments above 1000, in input order
DuplicateGroups(txs) ==
    LET leads(i) == /\ \A j \in SamePayment(txs, i) : i <= j
                    /\ Cardinality(SamePayment(txs, i)) >= 3
                    /\ txs[i].amount > 1000
    IN  SelectSeq([i \in DOMAIN txs |-> i], leads)

\* C13: the duplicate-payment check emits exactly one anomaly for each
\* (vendor, amount) group of at least 3 payments with amount > 1000 and none
\* for another group; count is the group size, amount the size times the
\* payment, severity high iff count >= 5 or the total > 100000, else medium.
C13_DuplicateRule ==
    outcome = "duplicate_payments" =>
        LET groups == DuplicateGroups(transactions)
        IN  /\ Len(anomalies) = Len(groups)
            /\ \A k \in DOMAIN anomalies :
                  LET size == Cardinality(SamePayment(transactions, groups[k]))
                      payment == transactions[groups[k]].amount
                  IN  /\ anomalies[k].type = "duplicate_payments"
                      /\ anomalies[k].vendor = transactions[groups[k]].vendor
                      /\ anomalies[k].count = size
                      /\ anomalies[k].amount = size * payment
                      /\ anomalies[k].severity =
                            (IF size >= 5 \/ size * payment > 100000 THEN "high" ELSE "medium")

\* two groups are reported, one high for its total and one medium, and a run
\* of three payments of exactly 1000 is not
C13_Witness ==
    /\ outcome = "duplicate_payments"
    /\ Len(anomalies) = 2
    /\ anomalies[1].severity = "high" /\ anomalies[1].count = 4
    /\ anomalies[2].severity = "medium"

\* the vendors of an input
Vendors(txs) == {txs[i].vendor : i \in DOMAIN txs}

\* the payments to vendor with 0.95 * threshold <= amount <= threshold - 1
InWindow(txs, threshold, vendor) ==
    {i \in DOMAIN txs : /\ txs[i].vendor = vendor
                        /\ 100 * txs[i].amount >= 95 * threshold
                        /\ txs[i].amount <= threshold - 1}

RECURSIVE SumOver(_, _)
SumOver(txs, S) ==
    IF S = {} THEN 0
    ELSE LET i == CHOOSE i \in S : TRUE IN txs[i].amount + SumOver(txs, S \ {i})

Matching(txs, pattern, vendor) ==
    {i \in DOMAIN txs : /\ txs[i].vendor = vendor
                        /\ txs[i].amount >= pattern.minAmount
                        /\ txs[i].amount % pattern.divisor = 0}

PaymentsTo(txs, vendor) == {i \in DOMAIN txs : txs[i].vendor = vendor}

CalendarDay(s) ==
    (DaysFromCivil(DigitsValue(s, 1, 4), DigitsValue(s, 6, 7), DigitsValue(s, 9, 10)) + 4) % 7

\* the payments to vendor that are dated on a Saturday or a Sunday
OnWeekend(txs, vendor) ==
    {i \in DOMAIN txs : /\ txs[i].vendor = vendor
                        /\ IsParseable(txs[i].date)
                        /\ CalendarDay(txs[i].date) \in {0, 6}}

\* C16: the weekend-payment check emits one anomaly per vendor iff the
\* vendor has at least 5 payments dated on a Saturday or Sunday and they are
\* more than 20% of all its payments, dated or not; severity is high iff the
\* percentage exceeds 40, else medium; amount is the sum of the weekend
\* payments and count their number.
C16_WeekendRule ==
    outcome = "weekend_payments" =>
        /\ \A v \in Vendors(transactions) :
              LET weekend == OnWeekend(transactions, v)
                  all == Cardinality(PaymentsTo(transactions, v))
                  found == {k \in DOMAIN anomalies : anomalies[k].vendor = v}
              IN  /\ Cardinality(found) =
                        (IF /\ Cardinality(weekend) >= 5
                            /\ Cardinality(weekend) * 100 > 20 * all
                         THEN 1 ELSE 0)
                  /\ \A k \in found :
                        /\ anomalies[k].type = "weekend_payments"
                        /\ anomalies[k].count = Cardinality(weekend)
                        /\ anomalies[k].amount = SumOver(transactions, weekend)
                        /\ anomalies[k].severity =
                              (IF Cardinality(weekend) * 100 > 40 * all THEN "high" ELSE "medium")
        /\ \A k \in DOMAIN anomalies : anomalies[k].vendor \in Vendors(transactions)

\* the calendar day of a parseable date string: its first ten characters
DayOf(s) == SubSeq(s, 1, 10)

\* the payments to vendor dated on day
OnDay(txs, vendor, day) ==
    {i \in DOMAIN txs : /\ txs[i].vendor = vendor
                        /\ IsParseable(txs[i].date)
                        /\ DayOf(txs[i].date) = day}

Days(txs) == {DayOf(txs[i].date) : i \in {j \in DOMAIN txs : IsParseable(txs[j].date)}}

\* C17: the same-day check groups the dated transactions by vendor and
\* calendar day, the time of day ignored, and emits exactly one anomaly for
\* each group of at least 3 and none otherwise; severity is high iff count >= 5
\* or the group's total > 50000, else medium; amount is the group total and
\* count the group size.
C17_SameDayRule ==
    outcome = "same_day_payments" =>
        /\ \A v \in Vendors(transactions) : \A day \in Days(transactions) :
              LET group == OnDay(transactions, v, day)
                  total == SumOver(transactions, group)
                  found == {k \in DOMAIN anomalies :
                               anomalies[k].vendor = v /\ anomalies[k].date = day}
              IN  /\ Cardinality(found) = (IF Cardinality(group) >= 3 THEN 1 ELSE 0)
                  /\ \A k \in found :
                        /\ anomalies[k].type = "same_day_payments"
                        /\ anomalies[k].count = Cardinality(group)
                        /\ anomalies[k].amount = total
                        /\ anomalies[k].severity =
                              (IF Cardinality(group) >= 5 \/ total > 50000
                               THEN "high" ELSE "medium")
        /\ \A k \in DOMAIN anomalies :
              /\ anomalies[k].vendor \in Vendors(transactions)
              /\ anomalies[k].date \in Days(transactions)

\* the payments to vendor that have a date Date can parse
Dated(txs, vendor) ==
    {i \in DOMAIN txs : txs[i].vendor = vendor /\ IsParseable(txs[i].date)}

\* C18: a transaction whose date is empty or unparseable is not counted in
\* a weekend_payments anomaly nor in the group of a same_day_payments
\* anomaly, and the two checks do not fail on it.
C18_UndatedExcluded ==
    /\ transactions \in DatedInputs => outcome # "threw"
    /\ outcome = "weekend_payments" =>
          \A k \in DOMAIN anomalies :
              anomalies[k].count <= Cardinality(Dated(transactions, anomalies[k].vendor))
    /\ outcome = "same_day_payments" =>
          \A k \in DOMAIN anomalies :
              anomalies[k].count <=
                  Cardinality(OnDay(transactions, anomalies[k].vendor, anomalies[k].date))

\* the anomalies about vendor
About(vendor) == {k \in DOMAIN anomalies : anomalies[k].vendor = vendor}

\* C19: the vendor-name check emits for each vendor at most one anomaly: one
\* iff the vendor's total over the input is >= 50000 and its name matches one
\* of the three patterns, labelled with the first of Double LLC, Acronym
\* company, Generic business name that matches; severity is medium iff the
\* total > 500000, else low.
C19_VendorNameRule ==
    outcome = "vendor_name_flag" =>
        /\ \A v \in Vendors(transactions) :
              LET total == SumOver(transactions, PaymentsTo(transactions, v))
                  matches == MatchesDoubleLLC(v) \/ MatchesAcronym(v) \/ MatchesGeneric(v)
              IN  /\ Cardinality(About(v)) = (IF total >= 50000 /\ matches THEN 1 ELSE 0)
                  /\ \A k \in About(v) :
                        /\ anomalies[k].type = "vendor_name_flag"
                        /\ anomalies[k].amount = total
                        /\ anomalies[k].severity = (IF total > 500000 THEN "medium" ELSE "low")
                        /\ MatchesDoubleLLC(v) => anomalies[k].pattern = "Double LLC"
                        /\ ~MatchesDoubleLLC(v) /\ MatchesAcronym(v) =>
                              anomalies[k].pattern = "Acronym company"
                        /\ ~MatchesDoubleLLC(v) /\ ~MatchesAcronym(v) =>
                              anomalies[k].pattern = "Generic business name"
        /\ \A k \in DOMAIN anomalies : anomalies[k].vendor \in Vendors(transactions)

\* a name matching all three patterns is labelled Double LLC, and a vendor
\* of exactly 50000 is flagged low beside one above 500000 flagged medium
C19_Witness ==
    /\ outcome = "vendor_name_flag"
    /\ Len(anomalies) = 2
    /\ \E k \in DOMAIN anomalies :
          /\ anomalies[k].vendor = VendorTwin
          /\ MatchesAcronym(VendorTwin) /\ MatchesGeneric(VendorTwin)
          /\ anomalies[k].pattern = "Double LLC"
          /\ anomalies[k].amount = 50000
          /\ anomalies[k].severity = "low"
    /\ \E k \in DOMAIN anomalies :
          /\ anomalies[k].vendor = VendorBeta
          /\ anomalies[k].severity = "medium"

\* C20: for an input in which "Beta Services LLC" has total 600000 the
\* vendor-name check emits exactly one anomaly about it, labelled Double LLC
\* and of severity medium.
C20_BetaIsDoubleLLC ==
    /\ outcome = "vendor_name_flag"
    /\ SumOver(transactions, PaymentsTo(transactions, VendorBeta)) = 600000
    => /\ Cardinality(About(VendorBeta)) = 1
       /\ \A k \in About(VendorBeta) :
             /\ anomalies[k].pattern = "Double LLC"
             /\ anomalies[k].severity = "medium"

\* C21: the high-frequency check emits exactly one anomaly for each vendor
\* whose transaction count is strictly greater than 5 times the mean count
\* over all distinct vendors, that vendor included, and strictly greater than
\* 20, and none for any other vendor; severity is high iff the count > 100,
\* else medium; a vendor of 25 transactions is flagged when the mean is 4.
C21_FrequencyRule ==
    outcome = "high_frequency" =>
        /\ \A v \in Vendors(transactions) :
              LET cnt == Cardinality(PaymentsTo(transactions, v))
                  frequent == /\ cnt * Cardinality(Vendors(transactions)) > 5 * Len(transactions)
                              /\ cnt > 20
              IN  /\ Cardinality(About(v)) = (IF frequent THEN 1 ELSE 0)
                  /\ \A k \in About(v) :
                        /\ anomalies[k].type = "high_frequency"
                        /\ anomalies[k].count = cnt
                        /\ anomalies[k].severity = (IF cnt > 100 THEN "high" ELSE "medium")
        /\ \A k \in DOMAIN anomalies : anomalies[k].vendor \in Vendors(transactions)
        /\ \A v \in Vendors(transactions) :
              /\ Cardinality(PaymentsTo(transactions, v)) = 25
              /\ Len(transactions) = 4 * Cardinality(Vendors(transactions))
              => Cardinality(About(v)) = 1

\* the vendor of 25 transactions among 8 vendors of 32 transactions is
\* flagged, medium
C21_Witness ==
    /\ outcome = "high_frequency"
    /\ Len(transactions) = 32
    /\ Cardinality(Vendors(transactions)) = 8
    /\ Len(anomalies) = 1
    /\ anomalies[1].vendor = VendorBolt
    /\ anomalies[1].count = 25
    /\ anomalies[1].severity = "medium"

C28_TwoFlagged ==
    /\ outcome = "high_frequency"
    /\ Cardinality(Vendors(transactions)) = 14
    /\ Len(anomalies) = 2

\* the element at 0-based index k of the amounts of txs sorted ascending
SortedAt(txs, k) ==
    CHOOSE v \in {txs[i].amount : i \in DOMAIN txs} :
        /\ Cardinality({i \in DOMAIN txs : txs[i].amount < v}) <= k
        /\ k < Cardinality({i \in DOMAIN txs : txs[i].amount <= v})

\* Q3 + 3 * (Q3 - Q1), Q1 and Q3 the elements at floor(0.25 n) and floor(0.75 n)
Fence(txs) ==
    LET q1 == SortedAt(txs, Len(txs) \div 4)
        q3 == SortedAt(txs, (3 * Len(txs)) \div 4)
    IN  q3 + 3 * (q3 - q1)

\* the positions of the transactions above the fence and above 1,000,000
Extreme(txs) ==
    IF txs = <<>> THEN {}
    ELSE {i \in DOMAIN txs : txs[i].amount > Fence(txs) /\ txs[i].amount > 1000000}

\* the k-th smallest member of a set of positions
KthOf(S, k) == CHOOSE i \in S : Cardinality({j \in S : j < i}) = k - 1

\* C22: the large-outlier check emits one anomaly for each of the first 10
\* transactions, in input order, whose amount is above the fence
\* Q3 + 3 * (Q3 - Q1) and above 1,000,000, and no other; severity is critical
\* iff the amount > 10,000,000, else high.
C22_OutlierRule ==
    outcome = "large_outlier" =>
        LET extreme == Extreme(transactions)
        IN  /\ Len(anomalies) = (IF Cardinality(extreme) > 10 THEN 10 ELSE Cardinality(extreme))
            /\ \A k \in DOMAIN anomalies :
                  LET t == transactions[KthOf(extreme, k)]
                  IN  /\ anomalies[k].type = "large_outlier"
                      /\ anomalies[k].vendor = t.vendor
                      /\ anomalies[k].amount = t.amount
                      /\ anomalies[k].severity =
                            (IF t.amount > 10000000 THEN "critical" ELSE "high")

\* more than ten payments are extreme and ten anomalies are emitted, a critical and
\* a high one among them
C22_Witness ==
    /\ outcome = "large_outlier"
    /\ Cardinality(Extreme(transactions)) > 10
    /\ Len(anomalies) = 10
    /\ \E k \in DOMAIN anomalies : anomalies[k].severity = "critical"
    /\ \E k \in DOMAIN anomalies : anomalies[k].severity = "high"

\* the positions of the transactions of 50,000,000
Fifties(txs) == {i \in DOMAIN txs : txs[i].amount = 50000000}

\* one transaction of 50,000,000 and every other one under 10,000
IsLoneGiant(txs) ==
    /\ Cardinality(Fifties(txs)) = 1
    /\ \A i \in DOMAIN txs \ Fifties(txs) : txs[i].amount < 10000

\* C23: for every input with one transaction of 50,000,000 and all others,
\* however few, under 10,000 the large-outlier check emits an anomaly of
\* severity critical for the 50,000,000 transaction.
C23_LoneGiantIsCritical ==
    outcome = "large_outlier" /\ IsLoneGiant(transactions) =>
        \E k \in DOMAIN anomalies :
            /\ anomalies[k].amount = 50000000
            /\ anomalies[k].severity = "critical"

\* the total paid to vendor, and the total of the input
VendorTotal(txs, vendor) == SumOver(txs, PaymentsTo(txs, vendor))
GrandTotal(txs) == SumOver(txs, DOMAIN txs)

\* C24: the vendor-concentration check emits at most one anomaly; it is
\* about a vendor with the largest total, and that vendor's share of the
\* grand total is strictly above 15%; severity is high iff the share > 25%,
\* else medium, however many vendors are above 15%; all-zero amounts give
\* no anomaly.
C24_ConcentrationRule ==
    outcome = "vendor_concentration" =>
        /\ Len(anomalies) <= 1
        /\ \A k \in DOMAIN anomalies :
              LET top == VendorTotal(transactions, anomalies[k].vendor)
                  grand == GrandTotal(transactions)
              IN  /\ anomalies[k].type = "vendor_concentration"
                  /\ anomalies[k].vendor \in Vendors(transactions)
                  /\ \A v \in Vendors(transactions) : VendorTotal(transactions, v) <= top
                  /\ anomalies[k].amount = top
                  /\ 100 * top > 15 * grand
                  /\ anomalies[k].severity = (IF 100 * top > 25 * grand THEN "high" ELSE "medium")
        /\ GrandTotal(transactions) = 0 => anomalies = <<>>
        /\ \A v \in Vendors(transactions) :
              100 * VendorTotal(transactions, v) = 15 * GrandTotal(transactions)
              /\ (\A u \in Vendors(transactions) :
                    VendorTotal(transactions, u) <= VendorTotal(transactions, v))
              => anomalies = <<>>

\* two vendors are above 15% and one anomaly is emitted, about the larger
C24_Witness ==
    /\ outcome = "vendor_concentration"
    /\ Len(anomalies) = 1
    /\ anomalies[1].vendor = VendorCory
    /\ anomalies[1].amount = 29
    /\ 100 * VendorTotal(transactions, VendorBolt) > 15 * GrandTotal(transactions)
    /\ VendorTotal(transactions, VendorBolt) < 29

\* the largest share is exactly 15% and nothing is emitted
C24_ExactlyFifteen ==
    /\ outcome = "vendor_concentration"
    /\ GrandTotal(transactions) = 100
    /\ VendorTotal(transactions, VendorBolt) = 15
    /\ \A v \in Vendors(transactions) : VendorTotal(transactions, v) <= 15
    /\ anomalies = <<>>

\* the vendor_concentration anomalies of the page
Concentrations == {k \in DOMAIN anomalies : anomalies[k].type = "vendor_concentration"}

\* C29: for every input with strictly positive total spending and at most
\* 6 distinct vendors the analysis returns exactly one vendor_concentration
\* anomaly, of severity high when there are at most 3 distinct vendors, so
\* that totalAnomalies >= 1; a single positive-amount transaction is such
\* an input.
C29_FewVendorsConcentrate ==
    (/\ Analysed
     /\ GrandTotal(transactions) > 0
     /\ Cardinality(Vendors(transactions)) <= 6) =>
        /\ outcome = "returned"
        /\ Cardinality(Concentrations) = 1
        /\ Cardinality(Vendors(transactions)) <= 3 =>
              \A k \in Concentrations : anomalies[k].severity = "high"
        /\ stats.totalAnomalies >= 1

\* the name starts with 2 to 4 uppercase letters followed by a blank
StartsWithUppercaseAcronym(s) ==
    \E n \in 2..4 :
        /\ n < Len(s)
        /\ \A i \in 1..n : IsUpper(s[i])
        /\ IsSpace(s[n + 1])

\* C25: an anomaly labelled Acronym company is about a name that starts
\* with a 2-4 letter uppercase acronym; a name whose leading token is
\* lowercase or mixed case, such as "abc llc", is not labelled so.
C25_AcronymIsUppercase ==
    outcome = "vendor_name_flag" =>
        \A k \in DOMAIN anomalies :
            anomalies[k].pattern = "Acronym company" =>
                StartsWithUppercaseAcronym(anomalies[k].vendor)

\* C26: the vendor of every duplicate_payments and same_day_payments anomaly
\* is the vendor string of the transactions of its group, all of one vendor,
\* also when the string contains the character | of the grouping key.
C26_GroupVendorIsExact ==
    outcome = "returned" =>
        \A k \in DOMAIN anomalies :
            anomalies[k].type \in {"duplicate_payments", "same_day_payments"} =>
                /\ anomalies[k].vendor \in Vendors(transactions)
                /\ anomalies[k].count
                      <= Cardinality(PaymentsTo(transactions, anomalies[k].vendor))

\* the round_numbers anomalies about vendor under the n-th pattern
RoundAbout(vendor, n) ==
    {k \in DOMAIN anomalies : /\ anomalies[k].type = "round_numbers"
                              /\ anomalies[k].vendor = vendor
                              /\ anomalies[k].pattern = roundPatterns[n].name}

\* C27: a transaction matching the $10K pattern matches the $5K pattern, and
\* one matching the $5K pattern matches the $1K pattern; so a vendor flagged
\* under $10K increments is flagged under $5K and $1K increments in the same
\* run, each of the three anomalies holds the amounts of the $10K payments,
\* and totalFlaggedAmount holds them three times.
C27_RoundPatternsNested ==
    outcome = "returned" =>
        \A v \in Vendors(transactions) :
            LET tens == Matching(transactions, roundPatterns[1], v)
                fives == Matching(transactions, roundPatterns[2], v)
                ones == Matching(transactions, roundPatterns[3], v)
                sum == SumOver(transactions, tens)
            IN  /\ tens \subseteq fives
                /\ fives \subseteq ones
                /\ RoundAbout(v, 1) # {} =>
                      /\ \A n \in DOMAIN roundPatterns :
                            /\ Cardinality(RoundAbout(v, n)) = 1
                            /\ \A k \in RoundAbout(v, n) : anomalies[k].amount >= sum
                      /\ stats.totalFlaggedAmount >= 3 * sum

\* four payments of 10000 to one vendor are flagged under the three
\* patterns and counted three times
C27_Witness ==
    /\ outcome = "returned"
    /\ \A n \in DOMAIN roundPatterns :
          \E k \in RoundAbout(VendorAcme, n) : anomalies[k].amount = 40000
    /\ stats.totalFlaggedAmount >= 120000

\* the severities a method gives its anomalies
SeveritiesOf(type) ==
    IF type \in {"threshold_avoidance", "large_outlier"} THEN {"high", "critical"}
    ELSE IF type = "vendor_name_flag" THEN {"low", "medium"}
    ELSE {"medium", "high"}

\* the anomalies of the given types
OfTypes(types) == {k \in DOMAIN anomalies : anomalies[k].type \in types}

\* C30: in every output threshold_avoidance and large_outlier anomalies are
\* high or critical, vendor_name_flag anomalies low or medium, and the
\* anomalies of the seven other methods medium or high; so lowCount counts
\* vendor_name_flag anomalies only and criticalCount threshold_avoidance and
\* large_outlier anomalies only.
C30_SeverityByMethod ==
    outcome = "returned" =>
        /\ \A k \in DOMAIN anomalies :
              /\ \E r \in DOMAIN MethodOrder : anomalies[k].type = MethodOrder[r]
              /\ anomalies[k].severity \in SeveritiesOf(anomalies[k].type)
        /\ stats.lowCount
              = Cardinality(WithSeverity("low") \cap OfTypes({"vendor_name_flag"}))
        /\ stats.criticalCount
              = Cardinality(WithSeverity("critical")
                                \cap OfTypes({"threshold_avoidance", "large_outlier"}))

\* an output with a low vendor_name_flag anomaly, counted by lowCount, beside
\* a high vendor_concentration anomaly
C30_Witness ==
    /\ outcome = "returned"
    /\ stats.lowCount = 1
    /\ WithSeverity("low") \cap OfTypes({"vendor_name_flag"}) # {}
    /\ WithSeverity("high") \cap OfTypes({"vendor_concentration"}) # {}

\* an output with a critical threshold_avoidance and a critical
\* large_outlier anomaly, both counted by criticalCount
C30_CriticalReached ==
    /\ outcome = "returned"
    /\ stats.criticalCount >= 2
    /\ WithSeverity("critical") \cap OfTypes({"threshold_avoidance"}) # {}
    /\ WithSeverity("critical") \cap OfTypes({"large_outlier"}) # {}

====
